---- MODULE Spec2Model ----
(***************************************************************************)
(* A model of fazer (src/lib.rs): the metadata pipeline `fazer`, its five  *)
(* extractors read_mp4, read_ogg, read_flac, read_wav, read_mp3, and the   *)
(* text transform translate_hebrew_gibberish.                              *)
(*                                                                         *)
(* The byte buffer is modelled by what the external parsers make of it:    *)
(* for each parser, whether it returns Ok with a parsed structure, returns *)
(* Err, or panics.  Text is a sequence of code points.  An f64 that the    *)
(* code computes as a quotient n / d is kept as the pair [num, den]; a     *)
(* zero den stands for the non-finite quotient (inf or NaN).               *)
(***************************************************************************)
EXTENDS Integers, Sequences, FiniteSets, TLC

VARIABLES
    call,       \* the exported function invoked: "fazer" or "translate"
    buf,        \* fazer's argument `data`, as the parsers' outcomes on it
    data,       \* translate_hebrew_gibberish's argument
    pc,         \* position inside the invoked function
    metadata,   \* the `let mut metadata` of read_flac / read_mp3
    i,          \* position of the running `for` loop (blocks, optional_info)
    by,         \* the extractor whose record fazer serialized
    ret,        \* the Option<Metadata> the last extractor returned
    result      \* the value handed back to the caller

vars == <<call, buf, data, pc, metadata, i, by, ret, result>>

----------------------------------------------------------------------------
(* Option<T> *)
None == <<>>
Some(x) == <<x>>
IsSome(o) == o /= <<>>
IsNone(o) == o = <<>>
Unwrap(o) == o[1]

(* Result<T, E> of a parser call, or a panic inside it *)
Ok(v) == [kind |-> "Ok", val |-> <<v>>]
Err == [kind |-> "Err", val |-> <<>>]
Panic == [kind |-> "Panic", val |-> <<>>]
IsOk(r) == r.kind = "Ok"
Val(r) == r.val[1]

(* f64 values *)
F64Of(n) == [num |-> n, den |-> 1]
F64Div(n, d) == [num |-> n, den |-> d]
IsFinite(x) == x.den /= 0
F64Eq(x, y) == IsFinite(x) /\ IsFinite(y) /\ x.num * y.den = y.num * x.den

SeqsUpTo(S, n) == UNION {[1..k -> S] : k \in 0..n}

(* #[derive(Default)] Metadata, with `format` given *)
Default(format) ==
    [artist |-> None, album |-> None, title |-> None, seconds |-> None,
     format |-> format, channels |-> None, bitrate |-> None,
     bit_depth |-> None, sample_rate |-> None]

----------------------------------------------------------------------------
(* read_mp4 *)

(* mutant of CodecFormat: the codec's own name, whatever the codec *)
CodecFormatUnfiltered(codec_type) == Some(codec_type)

(* the `match entry.codec_type` of read_mp4: the tag, or None for `_` *)
CodecFormat(codec_type) ==
    CASE codec_type = "MP3" -> Some("MP3")
      [] codec_type = "AAC" -> Some("AAC")
      [] codec_type = "ALAC" -> Some("ALAC")
      [] codec_type = "AV1" -> Some("AV1")
      [] codec_type = "Opus" -> Some("OPUS")
      [] codec_type = "FLAC" -> Some("FLAC")
      [] codec_type = "VP8" -> Some("VP8")
      [] codec_type = "VP9" -> Some("VP9")
      [] OTHER -> None

(* stsd.descriptions.iter().flat_map(Audio(entry) => Some(entry)).next() *)
RECURSIVE FirstAudioEntry(_, _)
FirstAudioEntry(descriptions, k) ==
    IF k > Len(descriptions) THEN None
    ELSE IF descriptions[k].kind = "Audio" THEN Some(descriptions[k])
    ELSE FirstAudioEntry(descriptions, k + 1)

(* track.duration.and_then(|d| track.timescale.map(|t| d / t)) *)
TrackSeconds(track) ==
    IF IsSome(track.duration) /\ IsSome(track.timescale)
    THEN Some(F64Div(Unwrap(track.duration), Unwrap(track.timescale)))
    ELSE None

(* the record literal of read_mp4 *)
Mp4Record(format, entry, track) ==
    [Default(format) EXCEPT
        !.channels = Some(entry.channelcount),
        !.sample_rate = Some(F64Of(entry.samplerate)),
        !.bit_depth = Some(entry.samplesize),
        !.seconds = TrackSeconds(track)]

(* mutant of ScanTracks: a codec outside the allow-list skips the track *)
RECURSIVE ScanTracksSkipping(_, _)
ScanTracksSkipping(tracks, k) ==
    IF k > Len(tracks) THEN None
    ELSE LET track == tracks[k] IN
         IF track.track_type /= "Audio" THEN ScanTracksSkipping(tracks, k + 1)
         ELSE IF IsNone(track.stsd) THEN ScanTracksSkipping(tracks, k + 1)
         ELSE LET entry == FirstAudioEntry(Unwrap(track.stsd), 1) IN
              IF IsNone(entry) THEN ScanTracksSkipping(tracks, k + 1)
              ELSE LET format == CodecFormat(Unwrap(entry).codec_type) IN
                   IF IsNone(format) THEN ScanTracksSkipping(tracks, k + 1)
                   ELSE Some(Mp4Record(Unwrap(format), Unwrap(entry), track))

(* `for track in &ctx.tracks`, from track k on; falls out of the loop to None *)
RECURSIVE ScanTracks(_, _)
ScanTracks(tracks, k) ==
    IF k > Len(tracks) THEN None
    ELSE LET track == tracks[k] IN
         IF track.track_type /= "Audio" THEN ScanTracks(tracks, k + 1)
         ELSE IF IsNone(track.stsd) THEN ScanTracks(tracks, k + 1)
         ELSE LET entry == FirstAudioEntry(Unwrap(track.stsd), 1) IN
              IF IsNone(entry) THEN ScanTracks(tracks, k + 1)
              ELSE LET format == CodecFormat(Unwrap(entry).codec_type) IN
                   IF IsNone(format) THEN None      \* `_ => return None`
                   ELSE Some(Mp4Record(Unwrap(format), Unwrap(entry), track))

read_mp4(parsed) ==
    IF ~IsOk(parsed) THEN None ELSE ScanTracks(Val(parsed), 1)

----------------------------------------------------------------------------
(* read_ogg *)

format_metadata(stream) ==
    [Default("OPUS") EXCEPT
        !.channels = Some(stream.channels),
        !.seconds = IF IsSome(stream.duration)
                    THEN Some(F64Of(Unwrap(stream.duration))) ELSE None]

(* `for format in res`: the first Opus or Vorbis stream returns *)
RECURSIVE ScanFormats(_, _)
ScanFormats(formats, k) ==
    IF k > Len(formats) THEN None
    ELSE IF formats[k].kind \in {"Opus", "Vorbis"}
    THEN Some(format_metadata(formats[k]))
    ELSE ScanFormats(formats, k + 1)

read_ogg(parsed) ==
    IF ~IsOk(parsed) THEN None ELSE ScanFormats(Val(parsed), 1)

----------------------------------------------------------------------------
(* read_wav *)

KIBI == 1024

(* mutant of WavBitrate: kilo for kibi *)
WavBitrateKilo(spec) ==
    F64Div(spec.sample_rate * spec.channels * spec.bits_per_sample, 1000)

WavBitrate(spec) ==
    F64Div(spec.sample_rate * spec.channels * spec.bits_per_sample, KIBI)

WavRecord(spec) ==
    [Default("WAV") EXCEPT
        !.seconds = Some(F64Div(spec.duration, spec.sample_rate)),
        !.sample_rate = Some(F64Of(spec.sample_rate)),
        !.bit_depth = Some(spec.bits_per_sample),
        !.channels = Some(spec.channels),
        !.bitrate = Some(WavBitrate(spec))]

read_wav(parsed) ==
    IF ~IsOk(parsed) THEN None ELSE Some(WavRecord(Val(parsed)))

----------------------------------------------------------------------------
(* read_flac *)

(* mutant of get_comment: the last value of the field *)
get_comment_last(field) ==
    IF IsSome(field) /\ Len(Unwrap(field)) > 0
    THEN Some(Unwrap(field)[Len(Unwrap(field))]) ELSE None

(* fn get_comment: data.map(|vec| vec.first()).unwrap_or_default() *)
get_comment(field) ==
    IF IsSome(field) /\ Len(Unwrap(field)) > 0
    THEN Some(Unwrap(field)[1]) ELSE None

(* the VorbisComment arm of the block loop *)
FlacComment(m, comment) ==
    [m EXCEPT
        !.artist = IF IsSome(get_comment(comment.artist))
                   THEN get_comment(comment.artist)
                   ELSE IF IsSome(get_comment(comment.album_artist))
                   THEN get_comment(comment.album_artist)
                   ELSE @,
        !.album = IF IsSome(get_comment(comment.album))
                  THEN get_comment(comment.album) ELSE @,
        !.title = IF IsSome(get_comment(comment.title))
                  THEN get_comment(comment.title) ELSE @]

(* the StreamInfo arm of the block loop *)
FlacStreamInfo(m, stream_info) ==
    [m EXCEPT
        !.seconds = Some(F64Div(stream_info.total_samples, stream_info.sample_rate)),
        !.channels = Some(stream_info.num_channels)]

(* one iteration of `for block in tag.blocks()` *)
FlacBlock(m, block) ==
    IF block.kind = "StreamInfo" THEN FlacStreamInfo(m, block)
    ELSE IF block.kind = "VorbisComment" THEN FlacComment(m, block)
    ELSE m

----------------------------------------------------------------------------
(* read_mp3 *)

MILLIS == 1000
NUL == 0
COMMA == 44
SPACE == 32

(* the `if let Ok(res) = id3::Tag::read_from` block *)
Id3Seed(m, res) ==
    [m EXCEPT
        !.artist = IF IsSome(res.artist) THEN res.artist
                   ELSE IF IsSome(res.album_artist) THEN res.album_artist
                   ELSE @,
        !.album = IF IsSome(res.album) THEN res.album ELSE @,
        !.title = IF IsSome(res.title) THEN res.title ELSE @,
        !.seconds = IF IsSome(res.duration)
                    THEN Some(F64Div(Unwrap(res.duration), MILLIS)) ELSE None]

(* the `match frame.chan_type` *)
FrameChannels(chan_type) ==
    CASE chan_type = "SingleChannel" -> Some(1)
      [] chan_type = "Unknown" -> None
      [] OTHER -> Some(2)

(* the `if let Some(frame) = res.frames.first()` block *)
FirstFrame(m, frames) ==
    IF Len(frames) = 0 THEN m
    ELSE [m EXCEPT
            !.channels = FrameChannels(frames[1].chan_type),
            !.bitrate = Some(F64Of(frames[1].bitrate)),
            !.sample_rate = Some(F64Of(frames[1].sampling_freq))]

(* [String]::join(", ") *)
RECURSIVE Join(_)
Join(strings) ==
    IF Len(strings) = 0 THEN <<>>
    ELSE IF Len(strings) = 1 THEN strings[1]
    ELSE strings[1] \o <<COMMA, SPACE>> \o Join(Tail(strings))

(* mutant of OptInfoFill: the entry's texts are written without looking *)
OptInfoOverwrite(m, tag) ==
    [m EXCEPT
        !.title = IF IsSome(tag.title) THEN tag.title ELSE @,
        !.artist = IF Len(tag.original_artists) > 0
                   THEN Some(Join(tag.original_artists)) ELSE @]

(* one iteration of `for tag in res.optional_info` *)
OptInfoFill(m, tag) ==
    [m EXCEPT
        !.title = IF IsNone(@) /\ IsSome(tag.title) THEN tag.title ELSE @,
        !.artist = IF IsNone(@) /\ Len(tag.original_artists) > 0
                   THEN Some(Join(tag.original_artists)) ELSE @]

(* str::trim_end_matches('\x00') *)
RECURSIVE trim_end_matches(_)
trim_end_matches(str) ==
    IF Len(str) > 0 /\ str[Len(str)] = NUL
    THEN trim_end_matches(SubSeq(str, 1, Len(str) - 1))
    ELSE str

(* the `if let Some(ref tag) = res.tag` block *)
TrailingFill(m, tag) ==
    IF IsNone(tag) THEN m
    ELSE [m EXCEPT
            !.artist = IF IsNone(@) /\ Len(Unwrap(tag).artist) > 0
                       THEN Some(trim_end_matches(Unwrap(tag).artist)) ELSE @,
            !.album = IF IsNone(@) /\ Len(Unwrap(tag).album) > 0
                      THEN Some(trim_end_matches(Unwrap(tag).album)) ELSE @,
            !.title = IF IsNone(@) /\ Len(Unwrap(tag).title) > 0
                      THEN Some(trim_end_matches(Unwrap(tag).title)) ELSE @]

(* mutant of FrameSeconds: the frames' duration only fills an unset field *)
FrameSecondsIfUnset(m, res) ==
    [m EXCEPT !.seconds = IF IsNone(@) THEN Some(F64Of(res.duration)) ELSE @]

(* metadata.seconds = Some(res.duration.as_secs_f64()) *)
FrameSeconds(m, res) ==
    [m EXCEPT !.seconds = Some(F64Of(res.duration))]

----------------------------------------------------------------------------
(* translate_hebrew_gibberish *)

LATIN_A_GRAVE == 224
LATIN_O_DIAERESIS == 246
HEBREW_ALEF == 1488

LATIN_TO_HEBREW_DELTA == HEBREW_ALEF - LATIN_A_GRAVE

(* mutant of is_latin1: the range without its last character *)
is_latin1_exclusive(c) == c >= LATIN_A_GRAVE /\ c < LATIN_O_DIAERESIS

is_latin1(c) == c >= LATIN_A_GRAVE /\ c <= LATIN_O_DIAERESIS

from_latin1_to_hebrew(c) == c + LATIN_TO_HEBREW_DELTA

translate_char(c) == IF ~is_latin1(c) THEN c ELSE from_latin1_to_hebrew(c)

translate_hebrew_gibberish(str) ==
    [k \in 1..Len(str) |-> translate_char(str[k])]

----------------------------------------------------------------------------
(* The inputs: what the parsers can make of a buffer. *)

MaxTracks == 2
MaxDescs == 2
MaxStreams == 2
MaxBlocks == 2
MaxOptInfo == 2
MaxLen == 3

AllowList == {"MP3", "AAC", "ALAC", "AV1", "Opus", "FLAC", "VP8", "VP9"}
Codecs == AllowList \cup {"Unknown", "EncryptedAudio", "LPCM"}

AudioEntry(codec_type) ==
    [kind |-> "Audio", codec_type |-> codec_type, channelcount |-> 2,
     samplerate |-> 48000, samplesize |-> 16]
VideoEntry == [kind |-> "Video"]

(* one track with one audio entry: every codec, every duration/timescale *)
SingleTracks ==
    {<<[track_type |-> "Audio", stsd |-> Some(<<AudioEntry(c)>>),
        duration |-> d, timescale |-> t]>> :
        c \in Codecs, d \in {None, Some(0), Some(90000)},
        t \in {None, Some(0), Some(30000)}}

(* several tracks; track k lasts k seconds, which tells the tracks apart *)
StsdShapes ==
    {None} \cup {Some(ds) :
        ds \in SeqsUpTo({VideoEntry, AudioEntry("AAC"), AudioEntry("Unknown")},
                        MaxDescs)}
TrackShapes ==
    {<<"Audio", stsd>> : stsd \in StsdShapes}
        \cup {<<"Video", None>>, <<"Video", Some(<<AudioEntry("AAC")>>)>>}
TrackAt(k, shape) ==
    [track_type |-> shape[1], stsd |-> shape[2],
     duration |-> Some(k * 1000), timescale |-> Some(1000)]
Tracks(n, shapes) == [k \in 1..n |-> TrackAt(k, shapes[k])]

Mp4Coarse ==
    {Err, Panic, Ok(<<>>),
     Ok(<<TrackAt(1, <<"Audio", Some(<<AudioEntry("AAC")>>)>>)>>),
     Ok(<<TrackAt(1, <<"Audio", Some(<<AudioEntry("Unknown")>>)>>)>>)}

OggStreams ==
    {[kind |-> "Other"],
     [kind |-> "Opus", channels |-> 2, duration |-> Some(5)],
     [kind |-> "Vorbis", channels |-> 1, duration |-> None]}
OggCoarse == {Err, Panic, Ok(<<>>), Ok(<<[kind |-> "Vorbis", channels |-> 1, duration |-> Some(7)]>>)}

StreamInfos ==
    {[kind |-> "StreamInfo", total_samples |-> 88200, sample_rate |-> r,
      num_channels |-> 2] : r \in {0, 44100}}
VorbisComments ==
    [kind : {"VorbisComment"},
     artist : {None, Some(<<>>), Some(<<<<97, 49>>, <<97, 50>>>>)},
     album_artist : {None, Some(<<<<98>>>>)},
     album : {None, Some(<<<<99, 49>>, <<99, 50>>>>)},
     title : {None, Some(<<<<>>, <<116>>>>)}]
FlacBlocks == StreamInfos \cup VorbisComments \cup {[kind |-> "Padding"]}
FlacCoarse == {Err, Panic, Ok(<<>>), Ok(<<CHOOSE b \in StreamInfos : b.sample_rate # 0>>)}

WavSpecs ==
    [sample_rate : {0, 8000, 44100}, channels : {1, 2},
     bits_per_sample : {8, 16, 24}, duration : {0, 88200}]
WavCoarse ==
    {Err, Panic,
     Ok([sample_rate |-> 44100, channels |-> 2, bits_per_sample |-> 16,
         duration |-> 88200])}

Id3Tags ==
    [artist : {None, Some(<<97>>)}, album_artist : {None, Some(<<98>>)},
     album : {None, Some(<<99>>)}, title : {None, Some(<<100>>)},
     duration : {None, Some(1500)}]
Id3Rich == {Err} \cup {Ok(t) : t \in Id3Tags}
Id3Coarse ==
    {Err, Panic,
     Ok([artist |-> Some(<<97>>), album_artist |-> None, album |-> None,
         title |-> None, duration |-> Some(1500)])}

Frame(chan_type) ==
    [chan_type |-> chan_type, bitrate |-> 128, sampling_freq |-> 44100]
FrameLists ==
    {<<>>, <<Frame("SingleChannel")>>, <<Frame("Unknown")>>, <<Frame("Stereo")>>,
     <<Frame("JointStereo"), Frame("SingleChannel")>>}
(* the k-th optional_info entry carries its position in its texts *)
OptInfoAt(k, shape) ==
    [title |-> IF shape[1] THEN Some(<<116, 48 + k>>) ELSE None,
     original_artists |->
        IF shape[2] THEN <<<<120, 48 + k>>, <<121, 48 + k>>>> ELSE <<>>]
OptionalInfo(n, shapes) == [k \in 1..n |-> OptInfoAt(k, shapes[k])]
AudioTags ==
    {None} \cup {Some(t) : t \in
        [artist : {<<>>, <<NUL, NUL>>, <<65, NUL>>},
         album : {<<>>, <<NUL>>}, title : {<<>>, <<84>>}]}
(* the frames' total duration: 3 s a frame *)
FramesOk(frames, optional_info, tag) ==
    Ok([frames |-> frames, optional_info |-> optional_info, tag |-> tag,
        duration |-> 3 * Len(frames)])
LongFrameLists == {<<>>, <<Frame("JointStereo"), Frame("SingleChannel")>>}
FramesChannels == {FramesOk(fl, <<>>, None) : fl \in FrameLists}
FramesCoarse ==
    {Err, Panic,
     FramesOk(<<Frame("Stereo")>>, <<>>, None)}

Buffer(mp4, ogg, flac, wav, id3, frames) ==
    [mp4 |-> mp4, ogg |-> ogg, flac |-> flac, wav |-> wav, id3 |-> id3,
     frames |-> frames]

(* every combination of the parsers' outcomes, and each parser's structures
   in depth on the buffers that reach it *)
IsBuffer(b) ==
    \/ \E a \in Mp4Coarse, o \in OggCoarse, c \in FlacCoarse, d \in WavCoarse,
          e \in Id3Coarse, f \in FramesCoarse : b = Buffer(a, o, c, d, e, f)
    \/ \E ts \in SingleTracks : b = Buffer(Ok(ts), Err, Err, Err, Err, Err)
    \/ \E n \in 0..MaxTracks : \E shapes \in [1..n -> TrackShapes] :
          b = Buffer(Ok(Tracks(n, shapes)), Err, Err, Err, Err, Err)
    \/ \E n \in 0..MaxStreams : \E fs \in [1..n -> OggStreams] :
          b = Buffer(Err, Ok(fs), Err, Err, Err, Err)
    \/ \E n \in 0..MaxBlocks : \E bs \in [1..n -> FlacBlocks] :
          b = Buffer(Err, Err, Ok(bs), Err, Err, Err)
    \/ \E spec \in WavSpecs : b = Buffer(Err, Err, Err, Ok(spec), Err, Err)
    \/ \E e \in Id3Rich : b = Buffer(Err, Err, Err, Err, e, Err)
    \/ \E e \in Id3Rich, fl \in LongFrameLists, tg \in AudioTags :
          \E n \in 0..MaxOptInfo : \E shapes \in [1..n -> BOOLEAN \X BOOLEAN] :
              b = Buffer(Err, Err, Err, Err, e,
                         FramesOk(fl, OptionalInfo(n, shapes), tg))
    \/ \E f \in FramesChannels : b = Buffer(Err, Err, Err, Err, Err, f)

(* strings over code points around the two ranges, and the tests' strings *)
Chars == {32, 104, 223, 224, 240, 246, 247, 1487, 1488, 1510}
TestGibberish ==
    <<240, 229, 242, 237, 32, 225, 240, 224, 233, 32, 45, 32,
      104, 101, 108, 108, 111>>
TestHebrew ==
    <<1504, 1493, 1506, 1501, 32, 1489, 1504, 1488, 1497, 32, 45, 32,
      104, 101, 108, 108, 111>>
Strings == SeqsUpTo(Chars, MaxLen) \cup {TestGibberish, TestHebrew}

----------------------------------------------------------------------------
(* fazer *)

(* JsValue::from_serde: serde_json writes None and a non-finite f64 as null *)
JsF64(field) ==
    IF IsSome(field) /\ ~IsFinite(Unwrap(field)) THEN None ELSE field

from_serde(m) ==
    [js |-> "object",
     fields |-> [m EXCEPT !.seconds = JsF64(@), !.bitrate = JsF64(@),
                          !.sample_rate = JsF64(@)]]

(* JsValue::from_serde(&()) *)
JsNull == [js |-> "null"]
Pending == [js |-> "pending"]

(* one arm of fazer's `if let Some(metadata) = read_x(..) .. else ..` chain:
   serialize the record, or go on to the next extractor; after the last one
   the `else` arm serializes () *)
Branch(extractor, r, next) ==
    /\ ret' = r
    /\ IF IsSome(r)
       THEN /\ pc' = "done"
            /\ by' = extractor
            /\ result' = from_serde(Unwrap(r))
       ELSE IF next = "none"
       THEN /\ pc' = "done"
            /\ by' = "none"
            /\ result' = JsNull
       ELSE /\ pc' = next
            /\ UNCHANGED <<by, result>>

(* a panic inside a parser: nothing in read_x or fazer catches it *)
Unwind ==
    /\ pc' = "panicked"
    /\ UNCHANGED <<by, ret, result>>

ReadMp4 ==
    /\ pc = "mp4"
    /\ IF buf.mp4.kind = "Panic" THEN Unwind
       ELSE Branch("mp4", read_mp4(buf.mp4), "ogg")
    /\ UNCHANGED <<call, buf, data, metadata, i>>

ReadOgg ==
    /\ pc = "ogg"
    /\ IF buf.ogg.kind = "Panic" THEN Unwind
       ELSE Branch("ogg", read_ogg(buf.ogg), "flac")
    /\ UNCHANGED <<call, buf, data, metadata, i>>

(* read_flac up to the block loop *)
ReadFlac ==
    /\ pc = "flac"
    /\ IF buf.flac.kind = "Panic"
       THEN Unwind /\ UNCHANGED <<metadata, i>>
       ELSE IF buf.flac.kind = "Err"
       THEN Branch("flac", None, "wav") /\ UNCHANGED <<metadata, i>>
       ELSE /\ metadata' = Default("FLAC")
            /\ i' = 1
            /\ pc' = "flac_blocks"
            /\ UNCHANGED <<by, ret, result>>
    /\ UNCHANGED <<call, buf, data>>

(* one iteration of read_flac's block loop *)
ReadFlacBlock ==
    /\ pc = "flac_blocks"
    /\ i <= Len(Val(buf.flac))
    /\ metadata' = FlacBlock(metadata, Val(buf.flac)[i])
    /\ i' = i + 1
    /\ UNCHANGED <<call, buf, data, pc, by, ret, result>>

(* read_flac's `Some(metadata)` *)
ReadFlacReturn ==
    /\ pc = "flac_blocks"
    /\ i > Len(Val(buf.flac))
    /\ Branch("flac", Some(metadata), "wav")
    /\ UNCHANGED <<call, buf, data, metadata, i>>

(* mutant of ReadWav: WAV tried after MP3, which never declines *)
ReadWavAfterMp3 ==
    /\ pc = "wav"
    /\ pc' = "mp3"
    /\ UNCHANGED <<call, buf, data, metadata, i, by, ret, result>>

ReadWav ==
    /\ pc = "wav"
    /\ IF buf.wav.kind = "Panic" THEN Unwind
       ELSE Branch("wav", read_wav(buf.wav), "mp3")
    /\ UNCHANGED <<call, buf, data, metadata, i>>

(* read_mp3: the record and the id3 parse *)
ReadMp3Id3 ==
    /\ pc = "mp3"
    /\ IF buf.id3.kind = "Panic"
       THEN Unwind /\ UNCHANGED metadata
       ELSE /\ metadata' = IF IsOk(buf.id3)
                           THEN Id3Seed(Default("MP3"), Val(buf.id3))
                           ELSE Default("MP3")
            /\ pc' = "mp3_frames"
            /\ UNCHANGED <<by, ret, result>>
    /\ UNCHANGED <<call, buf, data, i>>

(* mutant of ReadMp3Frames: read_mp3 declines when both parses failed *)
ReadMp3FramesDeclining ==
    /\ pc = "mp3_frames"
    /\ IF buf.frames.kind = "Panic"
       THEN Unwind /\ UNCHANGED <<metadata, i>>
       ELSE IF buf.frames.kind = "Err"
       THEN /\ Branch("mp3", IF IsOk(buf.id3) THEN Some(metadata) ELSE None, "none")
            /\ UNCHANGED <<metadata, i>>
       ELSE /\ metadata' = FirstFrame(metadata, Val(buf.frames).frames)
            /\ i' = 1
            /\ pc' = "mp3_optional_info"
            /\ UNCHANGED <<by, ret, result>>
    /\ UNCHANGED <<call, buf, data>>

(* read_mp3: the frame parse and the first frame; `Some(metadata)` when
   the parse fails *)
ReadMp3Frames ==
    /\ pc = "mp3_frames"
    /\ IF buf.frames.kind = "Panic"
       THEN Unwind /\ UNCHANGED <<metadata, i>>
       ELSE IF buf.frames.kind = "Err"
       THEN Branch("mp3", Some(metadata), "none") /\ UNCHANGED <<metadata, i>>
       ELSE /\ metadata' = FirstFrame(metadata, Val(buf.frames).frames)
            /\ i' = 1
            /\ pc' = "mp3_optional_info"
            /\ UNCHANGED <<by, ret, result>>
    /\ UNCHANGED <<call, buf, data>>

(* one iteration of `for tag in res.optional_info` *)
ReadMp3OptionalInfo ==
    /\ pc = "mp3_optional_info"
    /\ i <= Len(Val(buf.frames).optional_info)
    /\ metadata' = OptInfoFill(metadata, Val(buf.frames).optional_info[i])
    /\ i' = i + 1
    /\ UNCHANGED <<call, buf, data, pc, by, ret, result>>

(* read_mp3: the trailing tag, the duration, `Some(metadata)` *)
ReadMp3Return ==
    /\ pc = "mp3_optional_info"
    /\ i > Len(Val(buf.frames).optional_info)
    /\ metadata' = FrameSeconds(TrailingFill(metadata, Val(buf.frames).tag),
                                Val(buf.frames))
    /\ Branch("mp3", Some(metadata'), "none")
    /\ UNCHANGED <<call, buf, data, i>>

Translate ==
    /\ pc = "translate"
    /\ result' = [js |-> "string", str |-> translate_hebrew_gibberish(data)]
    /\ pc' = "done"
    /\ UNCHANGED <<call, buf, data, metadata, i, by, ret>>

InitFazer ==
    /\ call = "fazer"
    /\ IsBuffer(buf)
    /\ data = <<>>
    /\ pc = "mp4"

InitTranslate ==
    /\ call = "translate"
    /\ buf = Buffer(Err, Err, Err, Err, Err, Err)
    /\ data \in Strings
    /\ pc = "translate"

Init ==
    /\ InitFazer \/ InitTranslate
    /\ metadata = None
    /\ i = 0
    /\ by = "none"
    /\ ret = None
    /\ result = Pending

Next ==
    \/ ReadMp4
    \/ ReadOgg
    \/ ReadFlac
    \/ ReadFlacBlock
    \/ ReadFlacReturn
    \/ ReadWav
    \/ ReadMp3Id3
    \/ ReadMp3Frames
    \/ ReadMp3OptionalInfo
    \/ ReadMp3Return
    \/ Translate

Spec == Init /\ [][Next]_vars

----------------------------------------------------------------------------
(* Properties *)

Order == <<"mp4", "ogg", "flac", "wav", "mp3">>

(* whether an extractor returns a record on buf *)
Accepts(extractor) ==
    CASE extractor = "mp4" -> IsSome(read_mp4(buf.mp4))
      [] extractor = "ogg" -> IsSome(read_ogg(buf.ogg))
      [] extractor = "flac" -> IsOk(buf.flac)
      [] extractor = "wav" -> IsOk(buf.wav)
      [] extractor = "mp3" -> TRUE

FormatsOf(extractor) ==
    CASE extractor = "mp4" -> {"MP3", "AAC", "ALAC", "AV1", "OPUS", "FLAC", "VP8", "VP9"}
      [] extractor = "ogg" -> {"OPUS"}
      [] extractor = "flac" -> {"FLAC"}
      [] extractor = "wav" -> {"WAV"}
      [] extractor = "mp3" -> {"MP3"}

Returned == call = "fazer" /\ pc = "done"

(* C1: when fazer returns, the record it returns is the one of the first
   extractor in the order MP4, Ogg, FLAC, WAV, MP3 that accepts the buffer:
   no extractor before it accepts, and an extractor after it has no say,
   whatever it would have made of the buffer. *)
C1_FirstExtractorWins ==
    Returned =>
        \E k \in 1..Len(Order) :
            /\ by = Order[k]
            /\ Accepts(Order[k])
            /\ \A j \in 1..(k - 1) : ~Accepts(Order[j])
            /\ result = from_serde(Unwrap(ret))
            /\ result.fields.format \in FormatsOf(Order[k])

(* a buffer both the WAV parser and the MP3 frame parser accept came back
   as WAV *)
C1_Witness ==
    /\ Returned
    /\ IsOk(buf.wav) /\ IsOk(buf.frames) /\ IsOk(buf.id3)
    /\ by = "wav"
    /\ result.fields.format = "WAV"

AllDeclineBeforeMp3 == \A k \in 1..4 : ~Accepts(Order[k])

Bare(format) == from_serde(Default(format))

(* C2: when MP4, Ogg, FLAC and WAV all decline, what fazer returns is a
   record with format MP3, never the serialized (); when the id3 parse and
   the frame parse both fail as well, every other field of it is null. *)
C2_Mp3Fallback ==
    (Returned /\ AllDeclineBeforeMp3) =>
        /\ result /= JsNull
        /\ result.js = "object"
        /\ result.fields.format = "MP3"
        /\ (~IsOk(buf.id3) /\ ~IsOk(buf.frames)) => result = Bare("MP3")

C2_Witness ==
    /\ Returned
    /\ AllDeclineBeforeMp3
    /\ ~IsOk(buf.id3) /\ ~IsOk(buf.frames)
    /\ result = Bare("MP3")

(* C3: fazer never raises: a parser's panic is caught by the extractor that
   called the parser and counts as a decline. *)
C3_NeverRaises == pc /= "panicked"

NineFormats == {"MP3", "FLAC", "OPUS", "AAC", "ALAC", "AV1", "VP8", "VP9", "WAV"}

(* C4: what fazer returns is the serialized () or a record whose format is
   one of the nine tags. *)
C4_FormatIsOneOfNine ==
    Returned =>
        \/ result = JsNull
        \/ result.js = "object" /\ result.fields.format \in NineFormats

(* an MP4 track with Opus audio came back under the tag OPUS *)
C4_Witness ==
    /\ Returned
    /\ by = "mp4"
    /\ \E k \in 1..Len(Val(buf.mp4)) :
          /\ IsSome(Val(buf.mp4)[k].stsd)
          /\ \E d \in 1..Len(Unwrap(Val(buf.mp4)[k].stsd)) :
                /\ Unwrap(Val(buf.mp4)[k].stsd)[d].kind = "Audio"
                /\ Unwrap(Val(buf.mp4)[k].stsd)[d].codec_type = "Opus"
    /\ result.fields.format = "OPUS"

----------------------------------------------------------------------------
(* read_mp4's tracks *)

Mp4Ran == call = "fazer" /\ pc /= "mp4" /\ pc /= "panicked" /\ IsOk(buf.mp4)

AudioEntryPositions(track) ==
    IF track.track_type = "Audio" /\ IsSome(track.stsd)
    THEN {d \in 1..Len(Unwrap(track.stsd)) : Unwrap(track.stsd)[d].kind = "Audio"}
    ELSE {}

Min(S) == CHOOSE x \in S : \A y \in S : x <= y

(* the track's first audio sample entry *)
EntryOf(track) == Unwrap(track.stsd)[Min(AudioEntryPositions(track))]

(* audio tracks with an audio sample entry *)
Candidates(tracks) ==
    {k \in 1..Len(tracks) : AudioEntryPositions(tracks[k]) /= {}}

(* those of them whose first audio entry has an allow-listed codec *)
Qualifying(tracks) ==
    {k \in Candidates(tracks) : EntryOf(tracks[k]).codec_type \in AllowList}

RecordOfTrack(track) ==
    Mp4Record(Unwrap(CodecFormat(EntryOf(track).codec_type)), EntryOf(track), track)

Mp4Returned(m) == pc = "done" /\ by = "mp4" /\ ret = Some(m)
Mp4Declined == by /= "mp4"

(* C5 as claimed: a codec outside the allow-list rejects only its track; the
   first track that qualifies produces the record, and read_mp4 declines
   only when no track qualifies. *)
C5_RejectsOnlyTheTrack ==
    Mp4Ran =>
        LET tracks == Val(buf.mp4) IN
        IF Qualifying(tracks) /= {}
        THEN Mp4Returned(RecordOfTrack(tracks[Min(Qualifying(tracks))]))
        ELSE Mp4Declined

(* C5: the first audio track with an audio sample entry decides: read_mp4
   returns its record when the entry's codec is on the allow-list and
   declines otherwise, whatever tracks follow; it declines too when no
   audio track has an audio sample entry. *)
C5_FirstCandidateDecides ==
    Mp4Ran =>
        LET tracks == Val(buf.mp4) IN
        IF Candidates(tracks) /= {}
              /\ Min(Candidates(tracks)) \in Qualifying(tracks)
        THEN Mp4Returned(RecordOfTrack(tracks[Min(Candidates(tracks))]))
        ELSE Mp4Declined

(* read_mp4 declined although a track after the rejected one qualifies *)
C5_Witness ==
    /\ Mp4Ran
    /\ Candidates(Val(buf.mp4)) /= {}
    /\ Min(Candidates(Val(buf.mp4))) \notin Qualifying(Val(buf.mp4))
    /\ Qualifying(Val(buf.mp4)) /= {}
    /\ Mp4Declined
    /\ pc = "ogg"

----------------------------------------------------------------------------
(* read_mp3's two sources *)

(* the first Some of a sequence of options *)
RECURSIVE FirstSome(_)
FirstSome(options) ==
    IF options = <<>> THEN None
    ELSE IF IsSome(Head(options)) THEN Head(options)
    ELSE FirstSome(Tail(options))

Strip(str) ==
    LET keep == {n \in 0..Len(str) : \A k \in (n + 1)..Len(str) : str[k] = NUL}
    IN  SubSeq(str, 1, Min(keep))

JoinedWithCommaSpace(strings) ==
    LET Piece(k) == IF k = 1 THEN strings[k] ELSE <<COMMA, SPACE>> \o strings[k]
        F[k \in 0..Len(strings)] == IF k = 0 THEN <<>> ELSE F[k - 1] \o Piece(k)
    IN  F[Len(strings)]

Id3Text(field) ==
    IF IsOk(buf.id3) THEN Val(buf.id3)[field] ELSE None

OptInfoTitles ==
    IF IsOk(buf.frames)
    THEN [k \in 1..Len(Val(buf.frames).optional_info) |->
            Val(buf.frames).optional_info[k].title]
    ELSE <<>>

OptInfoArtists ==
    IF IsOk(buf.frames)
    THEN [k \in 1..Len(Val(buf.frames).optional_info) |->
            LET artists == Val(buf.frames).optional_info[k].original_artists
            IN  IF artists = <<>> THEN None
                ELSE Some(JoinedWithCommaSpace(artists))]
    ELSE <<>>

TrailingText(field) ==
    IF IsOk(buf.frames) /\ IsSome(Val(buf.frames).tag)
          /\ Unwrap(Val(buf.frames).tag)[field] /= <<>>
    THEN Some(Strip(Unwrap(Val(buf.frames).tag)[field]))
    ELSE None

ExpectedArtist ==
    FirstSome(<<Id3Text("artist"), Id3Text("album_artist")>> \o OptInfoArtists
                \o <<TrailingText("artist")>>)
ExpectedAlbum == FirstSome(<<Id3Text("album"), TrailingText("album")>>)
ExpectedTitle ==
    FirstSome(<<Id3Text("title")>> \o OptInfoTitles \o <<TrailingText("title")>>)

InFrameParse == pc \in {"mp3_frames", "mp3_optional_info"}

(* C6: in read_mp3, a text field that is set is never written again by the
   frame-level steps, and in the record fazer returns each of artist, album
   and title comes from the first source that has it, in the order id3 tag,
   optional_info entries (title; original artists joined with ", "),
   trailing tag (trailing NULs stripped). *)
C6_TextPrecedence ==
    [][ /\ InFrameParse =>
            \A field \in {"artist", "album", "title"} :
                IsSome(metadata[field]) => metadata'[field] = metadata[field]
        /\ (pc' = "done" /\ by' = "mp3") =>
            /\ result'.fields.artist = ExpectedArtist
            /\ result'.fields.album = ExpectedAlbum
            /\ result'.fields.title = ExpectedTitle ]_vars

(* all three sources had an artist and a title; the id3 tag's were kept *)
C6_Witness ==
    /\ Returned /\ by = "mp3"
    /\ IsSome(Id3Text("artist")) /\ IsSome(Id3Text("title"))
    /\ FirstSome(OptInfoArtists) /= None /\ FirstSome(OptInfoTitles) /= None
    /\ IsSome(TrailingText("artist")) /\ IsSome(TrailingText("title"))
    /\ IsNone(Id3Text("album")) /\ TrailingText("album") = Some(<<>>)
    /\ result.fields.artist = Id3Text("artist")
    /\ result.fields.album = Some(<<>>)

(* C7: in the record read_mp3 returns, seconds is the frames' duration
   whenever the frame parse succeeded, whatever the id3 tag announced;
   when it failed, seconds is the id3 tag's milliseconds / 1000 if the id3
   parse succeeded and announced a duration, and is absent otherwise. *)
C7_DurationPrecedence ==
    (Returned /\ by = "mp3") =>
        LET seconds == Unwrap(ret).seconds IN
        IF IsOk(buf.frames)
        THEN seconds = Some(F64Of(Val(buf.frames).duration))
        ELSE IF IsOk(buf.id3) /\ IsSome(Val(buf.id3).duration)
        THEN /\ IsSome(seconds)
             /\ Unwrap(seconds).den /= 0
             /\ Unwrap(seconds).num * 1000
                    = Unwrap(Val(buf.id3).duration) * Unwrap(seconds).den
        ELSE IsNone(seconds)

(* the id3 tag announced 1.5 s, the frames last 6 s: 6 s it is *)
C7_Witness ==
    /\ Returned /\ by = "mp3"
    /\ IsOk(buf.id3) /\ Val(buf.id3).duration = Some(1500)
    /\ IsOk(buf.frames) /\ Val(buf.frames).duration = 6
    /\ result.fields.seconds = Some(F64Of(6))

----------------------------------------------------------------------------
(* read_wav *)

WavRan ==
    /\ call = "fazer"
    /\ pc \in {"mp3", "mp3_frames", "mp3_optional_info", "done"}
    /\ by \notin {"mp4", "ogg", "flac"}

(* x is n / d, for d > 0: the same whole part and the same remainder *)
ExactQuotient(x, n, d) ==
    /\ x.den > 0
    /\ x.num \div x.den = n \div d
    /\ (x.num % x.den) * d = (n % d) * x.den

(* C8: on every buffer the WAV parser accepts read_wav returns a record:
   format WAV; seconds, sample_rate, bit_depth, channels and bitrate
   present; artist, album and title absent; bitrate * 1024 = sample_rate *
   channels * bits_per_sample and seconds * sample_rate = frame count (the
   quotient is not finite when sample_rate is 0); 44100 Hz, 2 channels,
   16 bits give 1378.125. *)
C8_WavRecord ==
    (WavRan /\ IsOk(buf.wav)) =>
        /\ pc = "done" /\ by = "wav" /\ IsSome(ret)
        /\ LET m == Unwrap(ret)
               spec == Val(buf.wav)
           IN  /\ m.format = "WAV"
               /\ IsNone(m.artist) /\ IsNone(m.album) /\ IsNone(m.title)
               /\ IsSome(m.seconds) /\ IsSome(m.sample_rate) /\ IsSome(m.bit_depth)
               /\ IsSome(m.channels) /\ IsSome(m.bitrate)
               /\ m.channels = Some(spec.channels)
               /\ m.bit_depth = Some(spec.bits_per_sample)
               /\ F64Eq(Unwrap(m.sample_rate), F64Of(spec.sample_rate))
               /\ ExactQuotient(Unwrap(m.bitrate),
                        spec.sample_rate * spec.channels * spec.bits_per_sample, 1024)
               /\ IF spec.sample_rate = 0 THEN ~IsFinite(Unwrap(m.seconds))
                  ELSE ExactQuotient(Unwrap(m.seconds), spec.duration, spec.sample_rate)
               /\ (spec.sample_rate = 44100 /\ spec.channels = 2
                        /\ spec.bits_per_sample = 16)
                    => F64Eq(Unwrap(m.bitrate), F64Div(1378125, 1000))

(* the 44100 Hz, 2 channel, 16 bit header with 88200 frames: 2 s *)
C8_Witness ==
    /\ Returned /\ by = "wav"
    /\ Val(buf.wav) = [sample_rate |-> 44100, channels |-> 2,
                       bits_per_sample |-> 16, duration |-> 88200]
    /\ F64Eq(Unwrap(Unwrap(ret).seconds), F64Of(2))
    /\ F64Eq(Unwrap(Unwrap(ret).bitrate), F64Div(11025, 8))

----------------------------------------------------------------------------
(* read_flac *)

(* the first value of a comment field that is present and has a value *)
FirstValue(field) ==
    IF field /= None /\ Unwrap(field) /= <<>> THEN Some(Head(Unwrap(field)))
    ELSE None

CommentBlocks ==
    IF IsOk(buf.flac)
    THEN {k \in 1..Len(Val(buf.flac)) : Val(buf.flac)[k].kind = "VorbisComment"}
    ELSE {}

(* C9: in read_flac, the step over a Vorbis-comment block sets artist to the
   first value of the artist field if the field is present and not empty,
   otherwise to the first value of the album-artist field (and leaves it as
   it is when that has none either); album and title take the first value
   of their field.  A stream returns a record whatever its blocks: with text
   fields absent when it has no comment block, resolved from the block when
   it has one.  A buffer the FLAC parser rejects makes read_flac decline. *)
C9_FlacComments ==
    [][ /\ (pc = "flac_blocks" /\ pc' = "flac_blocks"
                /\ Val(buf.flac)[i].kind = "VorbisComment") =>
            LET block == Val(buf.flac)[i] IN
            /\ metadata'.artist =
                    FirstSome(<<FirstValue(block.artist),
                                FirstValue(block.album_artist), metadata.artist>>)
            /\ metadata'.album = FirstSome(<<FirstValue(block.album), metadata.album>>)
            /\ metadata'.title = FirstSome(<<FirstValue(block.title), metadata.title>>)
        /\ (pc = "flac_blocks" /\ pc' /= "flac_blocks") =>
            /\ pc' = "done" /\ by' = "flac" /\ IsSome(ret')
            /\ Unwrap(ret').format = "FLAC"
            /\ CommentBlocks = {} =>
                /\ IsNone(Unwrap(ret').artist)
                /\ IsNone(Unwrap(ret').album)
                /\ IsNone(Unwrap(ret').title)
            /\ \A k \in CommentBlocks : CommentBlocks = {k} =>
                LET block == Val(buf.flac)[k] IN
                /\ Unwrap(ret').artist =
                        FirstSome(<<FirstValue(block.artist),
                                    FirstValue(block.album_artist)>>)
                /\ Unwrap(ret').album = FirstValue(block.album)
                /\ Unwrap(ret').title = FirstValue(block.title)
        /\ (pc = "flac" /\ buf.flac.kind = "Err") =>
            /\ pc' = "wav" /\ ret' = None /\ by' = "none" ]_vars

(* a comment block whose artist field is present but empty and whose
   album-artist field has a value: the record has the album artist, and
   the first of the two album values *)
C9_Witness ==
    /\ Returned /\ by = "flac"
    /\ \E k \in CommentBlocks :
          /\ CommentBlocks = {k}
          /\ Val(buf.flac)[k].artist = Some(<<>>)
          /\ Val(buf.flac)[k].album_artist = Some(<<<<98>>>>)
          /\ Val(buf.flac)[k].album = Some(<<<<99, 49>>, <<99, 50>>>>)
    /\ result.fields.artist = Some(<<98>>)
    /\ result.fields.album = Some(<<99, 49>>)

----------------------------------------------------------------------------
(* translate_hebrew_gibberish *)

Translated == call = "translate" /\ pc = "done"

(* C10: the transform keeps the string's length and order; a character
   outside 'a-grave'..'o-diaeresis' (224..246) is unchanged, one inside is
   moved up by alef - a-grave = 1264 into the Hebrew block (1424..1535);
   the transform of a transformed string is that string; the tests' strings
   come out as the tests say. *)
C10_Translate ==
    Translated =>
        LET out == result.str IN
        /\ Len(out) = Len(data)
        /\ \A k \in 1..Len(data) :
              IF data[k] \in 224..246
              THEN out[k] = data[k] + 1264 /\ out[k] \in 1424..1535
              ELSE out[k] = data[k]
        /\ translate_hebrew_gibberish(out) = out
        /\ data = TestGibberish => out = TestHebrew
        /\ data = TestHebrew => out = TestHebrew

(* the test's mixed string came out as Hebrew and English *)
C10_Witness ==
    /\ Translated
    /\ data = TestGibberish
    /\ result.str = TestHebrew

====
